---- MODULE Spec2Model ----
(***************************************************************************)
(* Circle physics test (src/src/main.rs): one frame of `update` moves the  *)
(* bodies, contains them in the arena, finds the overlapping pairs and     *)
(* pushes them apart.                                                       *)
(*                                                                         *)
(* Numbers.  The program computes in f32.  Here an f32 value v is the      *)
(* integer v * FP (fixed point, FP units per 1.0); a product or quotient   *)
(* of two values is rounded to the nearest unit, a sum or difference is    *)
(* exact.  Squared distances are kept in units^2 and compared exactly.     *)
(* The dimensionless factors of the program, a unit direction and a ratio  *)
(* of radii, are kept finer, as the integer v * UNIT.                       *)
(* Indices are 1-based (Rust's id k is k+1 here).                          *)
(***************************************************************************)
EXTENDS Integers, Sequences, FiniteSets, TLC

VARIABLES
    entities,    \* State.entities: Vec<Entity>
    pause,       \* State.pause
    app,         \* what App reports during the frame: keys, mouse, timer
    pc,          \* the call `update` is about to make ("idle": between frames)
    collisions,  \* the local `collisions` of update (line 94)
    frame        \* number of calls of update so far

vars == <<entities, pause, app, pc, collisions, frame>>

-----------------------------------------------------------------------------
(* f32 arithmetic on the fixed-point grid *)

FP == 16
UNIT == 4096

\* a / b rounded to the nearest integer, halves away from zero (b > 0)
RDiv(a, b) ==
    IF a >= 0 THEN (2 * a + b) \div (2 * b) ELSE -((2 * (-a) + b) \div (2 * b))

\* product and quotient of two fixed-point values
Mul(a, b) == RDiv(a * b, FP)
Div(a, b) == RDiv(a * FP, b)

\* a value times a factor, and the factor a / b
MulFactor(a, f) == RDiv(a * f, UNIT)
Factor(a, b) == RDiv(a * UNIT, b)

RECURSIVE ISqrt(_)
ISqrt(n) ==
    IF n < 2 THEN n
    ELSE LET s == 2 * ISqrt(n \div 4)
         IN  IF (s + 1) * (s + 1) <= n THEN s + 1 ELSE s

\* square root of a value given in units^2, rounded to the nearest unit
Sqrt(n) == LET s == ISqrt(n) IN IF n - s * s > s THEN s + 1 ELSE s

(* glam's Vec2 *)
vec2(x, y) == [x |-> x, y |-> y]
ZERO == vec2(0, 0)
splat(v) == vec2(v, v)
VAdd(a, b) == vec2(a.x + b.x, a.y + b.y)
VSub(a, b) == vec2(a.x - b.x, a.y - b.y)
VScale(a, s) == vec2(Mul(a.x, s), Mul(a.y, s))
SubScalar(a, s) == vec2(a.x - s, a.y - s)
AddScalar(a, s) == vec2(a.x + s, a.y + s)
length_squared(a) == a.x * a.x + a.y * a.y
distance_squared(a, b) == length_squared(VSub(a, b))
length(a) == Sqrt(length_squared(a))

\* a power of two b that brings n * b * b into [2^27, 2^29) when n is below
\* it: the length of a short vector keeps its leading bits, as in f32
RECURSIVE Boost(_)
Boost(n) == IF n = 0 \/ n >= 2^27 THEN 1 ELSE 2 * Boost(4 * n)

\* Vec2::normalize_or_zero: self * (1 / length) when that reciprocal is
\* finite and positive, the zero vector otherwise (length 0).  The result
\* is a factor: its components are in UNITs.
normalize_or_zero(a) ==
    LET n == length_squared(a)
        b == Boost(n)
        len == Sqrt(n * b * b)
    IN  IF n = 0 THEN ZERO
        ELSE vec2(RDiv(a.x * b * UNIT, len), RDiv(a.y * b * UNIT, len))

\* a unit direction times a value
Along(direction, s) == vec2(MulFactor(s, direction.x), MulFactor(s, direction.y))

-----------------------------------------------------------------------------
(* constants of main.rs *)

INITIAL_ENTITIES == 2            \* 30000 in the source; scaled down
INITIAL_VELOCITY == 40 * FP
ENTITY_RADIUS == 2 * FP
GAME_WIDTH == 1280 * FP
GAME_HEIGHT == 940 * FP
COLLISION_COLOR_TIME == RDiv(FP, 10)
FOLLOW_FORCE == 90 * FP          \* the literal 90.0 of sys_follow_mouse
BIG_RADIUS == 32 * FP            \* the literal 32.0 of spawn_big_circle

MaxFrames == 2

Px(n) == n * FP                  \* n pixels
Half(n) == (n * FP) \div 2       \* n/2 pixels

-----------------------------------------------------------------------------
(* struct Body, Transform, Entity *)

Body(position, velocity, force, radius) ==
    [position |-> position, velocity |-> velocity, force |-> force,
     radius |-> radius]

Transform(position, size) == [position |-> position, size |-> size]

Entity(body, transform, colliding, collision_time, follow_mouse) ==
    [body |-> body, transform |-> transform, is_colliding |-> colliding,
     collision_time |-> collision_time, follow_mouse |-> follow_mouse]

Ids(ents) == 1 .. Len(ents)

-----------------------------------------------------------------------------
(* init_entities: every body gets a random position in                    *)
(* [min_pos, min_pos + max_pos) and a random velocity in                   *)
(* [min_vel, min_vel + max_vel) on each axis (rng.gen::<f32>() is in       *)
(* [0, 1)).  The draws the model explores:                                 *)

InitDraws ==
    { <<Px(50), Px(50), -Px(20), -Px(16)>>,     \* heads for the left/top corner
      <<Px(1225), Px(881), Px(19), Px(19)>>,    \* heads for the right/bottom corner
      <<Half(1339), Px(470), Px(16), 0>>,       \* two bodies 3.5 apart, head-on
      <<Px(673), Px(470), -Px(16), 0>> }

InitBodies ==
    LET min_pos == vec2(Px(50), Px(50))
        max_pos == vec2(GAME_WIDTH - min_pos.x * 2, GAME_HEIGHT - min_pos.y * 2)
        min_vel == -(INITIAL_VELOCITY \div 2)
        max_vel == INITIAL_VELOCITY
        InRange(v, lo, width) == lo <= v /\ v < lo + width
    IN  { Entity(Body(vec2(d[1], d[2]), vec2(d[3], d[4]), splat(0), ENTITY_RADIUS),
                 Transform(vec2(d[1], d[2]), splat(ENTITY_RADIUS * 2)),
                 FALSE, 0, FALSE) :
            d \in { c \in InitDraws :
                      /\ InRange(c[1], min_pos.x, max_pos.x)
                      /\ InRange(c[2], min_pos.y, max_pos.y)
                      /\ InRange(c[3], min_vel, max_vel)
                      /\ InRange(c[4], min_vel, max_vel) } }

init_entities == [1 .. INITIAL_ENTITIES -> InitBodies]

(* What the host reports in a frame: was_pressed(Space), was_pressed(Left), *)
(* the mouse position, timer.delta_f32().                                   *)
Center == vec2(GAME_WIDTH \div 2, GAME_HEIGHT \div 2)

FrameInputs ==
    { [space |-> FALSE, click |-> FALSE, mouse |-> Center, delta |-> Px(3)],
      [space |-> FALSE, click |-> FALSE, mouse |-> Center, delta |-> 0],
      [space |-> FALSE, click |-> TRUE, mouse |-> Center, delta |-> 1],
      [space |-> FALSE, click |-> TRUE,
       mouse |-> vec2(GAME_WIDTH, GAME_HEIGHT \div 2), delta |-> 1],
      [space |-> TRUE, click |-> TRUE, mouse |-> Center, delta |-> Px(3)] }

\* timer.elapsed_f32() readings (seconds since start, never decreasing)
ElapsedValues == {0, Px(6000)}

-----------------------------------------------------------------------------
(* the systems, as functions of the entity array *)

sys_clean_collisions(ents, delta) ==
    [i \in Ids(ents) |->
        [ents[i] EXCEPT
            !.is_colliding = FALSE,
            !.collision_time = IF @ > 0 THEN @ - delta ELSE @]]

spawn_big_circle(ents, was_pressed, elapsed) ==
    IF was_pressed
    THEN LET position == vec2(Mul(GAME_WIDTH, Half(1)), Mul(GAME_HEIGHT, Half(1)))
             radius == BIG_RADIUS + Div(elapsed, Px(10))
             size == splat(radius * 2)
         IN  Append(ents,
                    Entity(Body(position, ZERO, ZERO, radius),
                           Transform(position, size), FALSE, 0, TRUE))
    ELSE ents

sys_follow_mouse(ents, pos) ==
    [i \in Ids(ents) |->
        IF ~ents[i].follow_mouse THEN ents[i]
        ELSE LET normalized_direction ==
                     normalize_or_zero(VSub(pos, ents[i].body.position))
             IN  [ents[i] EXCEPT
                    !.body.force = VAdd(@, Along(normalized_direction, FOLLOW_FORCE))]]

sys_apply_movement_to_body(ents, delta) ==
    [i \in Ids(ents) |->
        LET vel == VAdd(ents[i].body.velocity, ents[i].body.force)
        IN  [ents[i] EXCEPT
               !.body.position = VAdd(@, VScale(vel, delta)),
               !.body.force = ZERO]]

\* right_clamp with the radius forgotten
right_clamp_no_radius(e) == GAME_WIDTH

\* right_clamp as "position.x -= radius"
right_clamp_step_back(e) == e.body.position.x - e.body.radius

\* line 311: where a body that reached the right edge is put
right_clamp(e) == GAME_WIDTH - e.body.radius

bounce_one(e) ==
    LET r == e.body.radius
        left == e.body.position.x - r <= 0
        e1 == IF left
              THEN [e EXCEPT !.body.velocity.x = -@, !.body.position.x = r]
              ELSE e
        right == e1.body.position.x + r >= GAME_WIDTH
        e2 == IF right
              THEN [e1 EXCEPT !.body.velocity.x = -@,
                              !.body.position.x = right_clamp(e1)]
              ELSE e1
        top == e2.body.position.y - r < 0
        e3 == IF top
              THEN [e2 EXCEPT !.body.velocity.y = -@, !.body.position.y = r]
              ELSE e2
        bottom == e3.body.position.y + r >= GAME_HEIGHT
        e4 == IF bottom
              THEN [e3 EXCEPT !.body.velocity.y = -@,
                              !.body.position.y = GAME_HEIGHT - r]
              ELSE e3
    IN  e4

sys_bounce_rect(ents) == [i \in Ids(ents) |-> bounce_one(ents[i])]

sys_body_to_transform(ents) ==
    [i \in Ids(ents) |-> [ents[i] EXCEPT !.transform.position = ents[i].body.position]]

-----------------------------------------------------------------------------
(* collision detection *)

is_colliding(p1, r1, p2, r2) ==
    LET sum_radius == r1 + r2
        square_radius == sum_radius * sum_radius
        square_distance == distance_squared(p1, p2)
    IN  square_distance <= square_radius

\* StaticAABB2DIndex::query over the boxes added at lines 220-226: the ids of
\* the boxes that intersect [min, max], edges included
Query(ents, min, max) ==
    { id2 \in Ids(ents) :
        LET p == ents[id2].body.position
            r == ents[id2].body.radius
            bmin == SubScalar(p, r)
            bmax == AddScalar(p, r)
        IN  ~(max.x < bmin.x \/ max.y < bmin.y \/ min.x > bmax.x \/ min.y > bmax.y) }

\* StaticAABB2DIndex::query(min, max) as iterated at line 240.  The index
\* keeps the boxes of an index that fits one node (at most 16 items) in the
\* order they were added, so the candidates come in increasing id.
Candidates(ents, min, max) ==
    SelectSeq([i \in Ids(ents) |-> i], LAMBDA id2 : id2 \in Query(ents, min, max))

\* is_partner without the id1 == id2 skip of lines 241-243
is_partner_with_self(ents, id1, id2) ==
    is_colliding(ents[id1].body.position, ents[id1].body.radius,
                 ents[id2].body.position, ents[id2].body.radius)

\* lines 241-251: the candidate id2 is kept for id1
is_partner(ents, id1, id2) ==
    /\ id1 # id2
    /\ is_colliding(ents[id1].body.position, ents[id1].body.radius,
                    ents[id2].body.position, ents[id2].body.radius)

\* the colliding_with of id1 (lines 234-254)
CollidingWith(ents, id1) ==
    LET p1 == ents[id1].body.position
        r1 == ents[id1].body.radius
        cols == Candidates(ents, SubScalar(p1, r1), AddScalar(p1, r1))
    IN  SelectSeq(cols, LAMBDA id2 : is_partner(ents, id1, id2))

\* one (id1, colliding_with) per body, in id order (par_iter + collect keeps it)
sys_check_collision(ents) == [id1 \in Ids(ents) |-> <<id1, CollidingWith(ents, id1)>>]

-----------------------------------------------------------------------------
(* collision resolution.  A run carries the entity array and a log of the  *)
(* visits: the penetration each one computed, the two centers as they were  *)
(* when it began (c1, c2) and as it left them (after1, after2).             *)

\* penetration of lines 272-275 for the positions p1, p2
Penetration(p1, r1, p2, r2) == (r1 + r2) - length(VSub(p1, p2))

\* body of the inner closure (lines 268-296): id1 visits id2; p1, r1 are the
\* copies taken at lines 264-265
ResolveVisit(run, id1, p1, r1, id2) ==
    LET ents == run.ents
        p2 == ents[id2].body.position
        r2 == ents[id2].body.radius
        penetration == Penetration(p1, r1, p2, r2)
        direction == normalize_or_zero(VSub(p2, p1))
        push1 == MulFactor(penetration, Factor(r2, r1 + r2))
        push2 == MulFactor(penetration, Factor(r1, r1 + r2))
        ents1 == [ents EXCEPT
                    ![id1].is_colliding = TRUE,
                    ![id1].collision_time = COLLISION_COLOR_TIME,
                    ![id1].body.position =
                        IF r1 < r2 THEN VSub(@, Along(direction, push1)) ELSE @]
        ents2 == [ents1 EXCEPT
                    ![id2].is_colliding = TRUE,
                    ![id2].collision_time = COLLISION_COLOR_TIME,
                    ![id2].body.position =
                        IF r1 >= r2 THEN VAdd(@, Along(direction, push2)) ELSE @]
    IN  [ents |-> ents2,
         log |-> Append(run.log,
                        [id1 |-> id1, id2 |-> id2, penetration |-> penetration,
                         c1 |-> ents[id1].body.position, c2 |-> p2,
                         r1 |-> r1, r2 |-> r2,
                         after1 |-> ents2[id1].body.position,
                         after2 |-> ents2[id2].body.position])]

RECURSIVE ResolveCols(_, _, _, _, _, _)
ResolveCols(run, id1, p1, r1, cols, k) ==
    IF k > Len(cols) THEN run
    ELSE ResolveCols(ResolveVisit(run, id1, p1, r1, cols[k]), id1, p1, r1, cols, k + 1)

RECURSIVE ResolveFrom(_, _, _)
ResolveFrom(run, colls, k) ==
    IF k > Len(colls) THEN run
    ELSE LET id1 == colls[k][1]
             p1 == run.ents[id1].body.position
             r1 == run.ents[id1].body.radius
         IN  ResolveFrom(ResolveCols(run, id1, p1, r1, colls[k][2], 1), colls, k + 1)

ResolveRun(ents, colls) == ResolveFrom([ents |-> ents, log |-> <<>>], colls, 1)

sys_resolve_collisions(ents, colls) == ResolveRun(ents, colls).ents

-----------------------------------------------------------------------------
(* update, one step per call it makes *)

Init ==
    /\ entities \in init_entities
    /\ pause = FALSE
    /\ app = [space |-> FALSE, click |-> FALSE, mouse |-> Center, delta |-> 0,
              elapsed |-> 0]
    /\ pc = "idle"
    /\ collisions = <<>>
    /\ frame = 0

\* after_pause_check without the early return
after_pause_ignored(paused) == "clean"

\* lines 80-82: where update goes once the pause key is handled
after_pause_check(paused) == IF paused THEN "idle" ELSE "clean"

\* lines 75-85: the host calls update; the pause key is handled, and a paused
\* frame returns at once
Update ==
    /\ pc = "idle"
    /\ frame < MaxFrames
    /\ \E in \in FrameInputs, elapsed \in ElapsedValues :
          /\ elapsed >= app.elapsed
          /\ app' = [space |-> in.space, click |-> in.click, mouse |-> in.mouse,
                     delta |-> in.delta, elapsed |-> elapsed]
          /\ pause' = IF in.space THEN ~pause ELSE pause
    /\ pc' = after_pause_check(pause')
    /\ frame' = frame + 1
    /\ UNCHANGED <<entities, collisions>>

CleanCollisions ==
    /\ pc = "clean"
    /\ entities' = sys_clean_collisions(entities, app.delta)
    /\ pc' = "spawn"
    /\ UNCHANGED <<pause, app, collisions, frame>>

SpawnBigCircle ==
    /\ pc = "spawn"
    /\ entities' = spawn_big_circle(entities, app.click, app.elapsed)
    /\ pc' = "follow"
    /\ UNCHANGED <<pause, app, collisions, frame>>

FollowMouse ==
    /\ pc = "follow"
    /\ entities' = sys_follow_mouse(entities, vec2(app.mouse.x, app.mouse.y))
    /\ pc' = "move"
    /\ UNCHANGED <<pause, app, collisions, frame>>

ApplyMovement ==
    /\ pc = "move"
    /\ entities' = sys_apply_movement_to_body(entities, app.delta)
    /\ pc' = "bounce"
    /\ UNCHANGED <<pause, app, collisions, frame>>

BounceRect ==
    /\ pc = "bounce"
    /\ entities' = sys_bounce_rect(entities)
    /\ pc' = "check"
    /\ UNCHANGED <<pause, app, collisions, frame>>

CheckCollision ==
    /\ pc = "check"
    /\ collisions' = sys_check_collision(entities)
    /\ pc' = "resolve"
    /\ UNCHANGED <<entities, pause, app, frame>>

ResolveCollisions ==
    /\ pc = "resolve"
    /\ entities' = sys_resolve_collisions(entities, collisions)
    /\ collisions' = <<>>
    /\ pc' = "transform"
    /\ UNCHANGED <<pause, app, frame>>

BodyToTransform ==
    /\ pc = "transform"
    /\ entities' = sys_body_to_transform(entities)
    /\ pc' = "idle"
    /\ UNCHANGED <<pause, app, collisions, frame>>

Next ==
    \/ Update
    \/ CleanCollisions
    \/ SpawnBigCircle
    \/ FollowMouse
    \/ ApplyMovement
    \/ BounceRect
    \/ CheckCollision
    \/ ResolveCollisions
    \/ BodyToTransform

Spec == Init /\ [][Next]_vars

-----------------------------------------------------------------------------
(* Properties.  pc = "check" holds exactly in the states sys_bounce_rect   *)
(* has just produced; pc = "resolve" in the states sys_resolve_collisions   *)
(* starts from, with `collisions` the lists it was handed.                  *)

Pos(i) == entities[i].body.position
Vel(i) == entities[i].body.velocity
Rad(i) == entities[i].body.radius

InsideX(e) ==
    e.body.radius <= e.body.position.x /\ e.body.position.x <= GAME_WIDTH - e.body.radius
InsideY(e) ==
    e.body.radius <= e.body.position.y /\ e.body.position.y <= GAME_HEIGHT - e.body.radius

\* C1 as stated: after sys_bounce_rect every body's position lies within
\* [radius, GAME_WIDTH - radius] on x and [radius, GAME_HEIGHT - radius] on y,
\* for every body the program can create.
C1_AllContained ==
    pc = "check" => \A i \in Ids(entities) : InsideX(entities[i]) /\ InsideY(entities[i])

\* C1 amended: after sys_bounce_rect every body lies within
\* [radius, dimension - radius] on each axis on which it fits the arena
\* (2 * radius <= dimension).
C1_FittingContained ==
    pc = "check" =>
        \A i \in Ids(entities) :
            /\ 2 * Rad(i) <= GAME_WIDTH => InsideX(entities[i])
            /\ 2 * Rad(i) <= GAME_HEIGHT => InsideY(entities[i])

\* bodies clamped to the left and to the right edge, and a spawned body that fits
C1_Witness ==
    /\ pc = "check"
    /\ \E i \in Ids(entities) : Pos(i).x = Rad(i)
    /\ \E i \in Ids(entities) : Pos(i).x = GAME_WIDTH - Rad(i)
    /\ \E i \in Ids(entities) : entities[i].follow_mouse /\ 2 * Rad(i) <= GAME_HEIGHT

\* C2 as stated: a second sys_bounce_rect on a just-contained array changes
\* neither position nor velocity of any body.
C2_Idempotent == pc = "check" => sys_bounce_rect(entities) = entities

StrictlyInsideX(e) ==
    e.body.position.x - e.body.radius > 0 /\ e.body.position.x + e.body.radius < GAME_WIDTH
StrictlyInsideY(e) ==
    e.body.position.y - e.body.radius > 0 /\ e.body.position.y + e.body.radius < GAME_HEIGHT

\* C2 amended: a second sys_bounce_rect on a just-contained array changes no
\* body's position, and changes no velocity component of a body that lies
\* strictly inside the arena on that axis.
C2_IdempotentInside ==
    pc = "check" =>
        \A i \in Ids(entities) :
            LET again == sys_bounce_rect(entities)[i]
            IN  /\ again.body.position = Pos(i)
                /\ StrictlyInsideX(entities[i]) => again.body.velocity.x = Vel(i).x
                /\ StrictlyInsideY(entities[i]) => again.body.velocity.y = Vel(i).y

\* a body the first call clamped to the right edge, which a second call
\* reflects again, beside a body strictly inside the arena
C2_Witness ==
    /\ pc = "check"
    /\ \E i \in Ids(entities) :
          /\ Pos(i).x = GAME_WIDTH - Rad(i)
          /\ Vel(i).x # 0
          /\ sys_bounce_rect(entities)[i].body.velocity.x = -Vel(i).x
    /\ \E i \in Ids(entities) :
          StrictlyInsideX(entities[i]) /\ StrictlyInsideY(entities[i])

\* C3: sys_apply_movement_to_body leaves every body with stored
\* velocity' = velocity + force, position' = position + velocity' * delta and
\* force' = 0; with delta = 0 the position is unchanged.
C3_Integration ==
    [][pc = "move" =>
        \A i \in Ids(entities) :
            /\ entities'[i].body.velocity = VAdd(Vel(i), entities[i].body.force)
            /\ entities'[i].body.position =
                   VAdd(Pos(i), VScale(entities'[i].body.velocity, app.delta))
            /\ entities'[i].body.force = ZERO
            /\ app.delta = 0 => entities'[i].body.position = Pos(i)]_vars

Overlap(i, j) == is_colliding(Pos(i), Rad(i), Pos(j), Rad(j))

\* C4: after an unpaused frame a body is flagged is_colliding exactly when
\* its circle overlapped another body's circle at the positions resolution
\* started from; the flags then stay as they are to the end of the frame.
C4_FlagsExact ==
    [][/\ pc = "resolve" =>
            \A i \in Ids(entities) :
                entities'[i].is_colliding <=>
                    \E j \in Ids(entities) \ {i} : Overlap(i, j)
       /\ pc = "transform" =>
            \A i \in Ids(entities) :
                entities'[i].is_colliding = entities[i].is_colliding]_vars

Box(i) == <<SubScalar(Pos(i), Rad(i)), AddScalar(Pos(i), Rad(i))>>

\* a resolved frame with a flagged body and an unflagged one whose box
\* reaches another body's box (a candidate the exact test rejected)
C4_Witness ==
    /\ pc = "transform"
    /\ \E i \in Ids(entities) : entities[i].is_colliding
    /\ \E j \in Ids(entities) :
          /\ ~entities[j].is_colliding
          /\ Query(entities, Box(j)[1], Box(j)[2]) # {j}

Visits == ResolveRun(entities, collisions).log

\* C5: a visit that finds the two centers coincident displaces a body, and
\* leaves the centers apart.
C5_CoincidentSeparated ==
    pc = "resolve" =>
        \A k \in 1 .. Len(Visits) :
            Visits[k].c1 = Visits[k].c2 =>
                /\ Visits[k].after1 # Visits[k].c1 \/ Visits[k].after2 # Visits[k].c2
                /\ Visits[k].after1 # Visits[k].after2

\* i and j overlap each other and nothing else
IsolatedPair(i, j) ==
    /\ i # j
    /\ collisions[i][2] = <<j>>
    /\ collisions[j][2] = <<i>>

\* C6: two bodies of equal radius that overlap with distinct centers and
\* touch no other body are, after the resolution of the frame, at least the
\* sum of their radii apart.
C6_PairSeparated ==
    [][pc = "resolve" =>
        \A i, j \in Ids(entities) :
            (IsolatedPair(i, j) /\ Rad(i) = Rad(j) /\ Pos(i) # Pos(j)) =>
                distance_squared(entities'[i].body.position, entities'[j].body.position)
                    >= (Rad(i) + Rad(j)) * (Rad(i) + Rad(j))]_vars

Neg(v) == vec2(-v.x, -v.y)

\* C7: for two overlapping bodies of equal radius and opposite equal
\* velocities, the velocities after sys_resolve_collisions are the negation
\* of those before it.
C7_VelocitiesNegated ==
    [][pc = "resolve" =>
        \A i, j \in Ids(entities) :
            (IsolatedPair(i, j) /\ Rad(i) = Rad(j) /\ Vel(i) = Neg(Vel(j))) =>
                /\ entities'[i].body.velocity = Neg(Vel(i))
                /\ entities'[j].body.velocity = Neg(Vel(j))]_vars

\* C8: a call of update that leaves the pause flag set returns without
\* running the pipeline: it starts no stage and changes nothing in the
\* entity list, whatever the frame's click.
C8_PausedFrameInert ==
    [][(pc = "idle" /\ pause') => (pc' = "idle" /\ entities' = entities)]_vars

\* a paused frame in which the spawn click was pressed
C8_Witness ==
    /\ pause
    /\ pc = "idle"
    /\ app.click
    /\ frame > 0
    /\ Len(entities) = INITIAL_ENTITIES

\* C9: a body whose edge exactly touches a boundary has that axis's velocity
\* reflected and its position clamped by sys_bounce_rect, on all four edges.
C9_InclusiveEdges ==
    [][pc = "bounce" =>
        \A i \in Ids(entities) :
            LET after == entities'[i].body
            IN  /\ Pos(i).x - Rad(i) = 0 =>
                      after.velocity.x = -Vel(i).x /\ after.position.x = Rad(i)
                /\ Pos(i).x + Rad(i) = GAME_WIDTH =>
                      after.velocity.x = -Vel(i).x /\ after.position.x = GAME_WIDTH - Rad(i)
                /\ Pos(i).y - Rad(i) = 0 =>
                      after.velocity.y = -Vel(i).y /\ after.position.y = Rad(i)
                /\ Pos(i).y + Rad(i) = GAME_HEIGHT =>
                      after.velocity.y = -Vel(i).y /\ after.position.y = GAME_HEIGHT - Rad(i)]_vars

\* C10: every visit of sys_resolve_collisions applies a penetration that is
\* non-negative and is the one of the two bodies' current positions.
C10_PenetrationNonNegative ==
    pc = "resolve" =>
        \A k \in 1 .. Len(Visits) :
            /\ Visits[k].penetration >= 0
            /\ Visits[k].penetration =
                   Penetration(Visits[k].c1, Visits[k].r1, Visits[k].c2, Visits[k].r2)

====
